---- MODULE Spec2Model ----
(***************************************************************************)
(* Model of the ticket dashboard: the query layer of database.py           *)
(* (build_where, get_ticket_type, search_tickets, export_tickets) over a   *)
(* SQLite table, and the search path of MainWindow in main.py              *)
(* (on_search, go_page, refresh, SearchWorker.run, on_data_loaded).        *)
(*                                                                         *)
(* Text is modelled as a sequence of one-character strings, so that        *)
(* strip(), lower(), the "in" test and SQLite's LIKE operator are computed *)
(* character by character as the code and the storage engine compute      *)
(* them.                                                                   *)
(***************************************************************************)
EXTENDS Integers, Sequences, FiniteSets, TLC

VARIABLES
    store,      \* the tickets table: rows in storage (rowid) order
    search,     \* search text handed to the query layer
    status,     \* status selector handed to the query layer
    sres,       \* the last search_tickets call: its page, page_size, result
    prev,       \* the search_tickets call before the last one
    eres,       \* the last export_tickets call: its result
    nextPage,   \* paging through a result: the page to fetch next
    acc,        \* paging through a result: the pages fetched so far, concatenated
    descr,      \* a description handed to get_ticket_type
    dtype,      \* what get_ticket_type returned for it
    pc,         \* a search_tickets call in progress: the statement it runs next
    part,       \* a search_tickets call in progress: what it has read so far
    seen,       \* the table contents since that call began
    writes,     \* writes committed by other connections
    search_input,   \* MainWindow: the text of the search field
    status_combo,   \* MainWindow: the current text of the status selector
    ui,         \* MainWindow: current_page, last filter, and what is displayed
    workers,    \* every SearchWorker started, in order; self.worker is the last
    queue,      \* finished signals emitted and not yet delivered to the window
    app         \* "running", or "aborted" once the process has died

\* ------------------------------------------------------------------ bounds

MaxTickets == 3     \* rows in the table
MaxPage == 4        \* largest page number requested
MaxNegPage == 1     \* pages are requested from -MaxNegPage
MaxPageSize == 2    \* page sizes 1..MaxPageSize
MaxWords == 2       \* words in a description handed to get_ticket_type
MaxWrites == 2      \* writes by other connections during one behaviour
MaxRequests == 3    \* SearchWorkers started, the one of the constructor included

\* -------------------------------------------------------------------- text

None == [none |-> TRUE]

Max(a, b) == IF a >= b THEN a ELSE b

Min(a, b) == IF a <= b THEN a ELSE b

UPPER ==
    <<"A","B","C","D","E","F","G","H","I","J","K","L","M",
      "N","O","P","Q","R","S","T","U","V","W","X","Y","Z">>

LOWER ==
    <<"a","b","c","d","e","f","g","h","i","j","k","l","m",
      "n","o","p","q","r","s","t","u","v","w","x","y","z">>

LowerMap == [c \in {UPPER[i] : i \in 1..26} |-> LOWER[CHOOSE i \in 1..26 : UPPER[i] = c]]

\* one character of str.lower() / of SQLite's ASCII case folding
ToLowerChar(c) == IF c \in DOMAIN LowerMap THEN LowerMap[c] ELSE c

\* str.lower()
lower(s) == [i \in 1..Len(s) |-> ToLowerChar(s[i])]

\* Python's "needle in hay" on text: an exact, case-sensitive substring test
Contains(hay, needle) ==
    \E i \in 0..(Len(hay) - Len(needle)) :
        \A j \in 1..Len(needle) : hay[i + j] = needle[j]

IsSpace(c) == c = " "

RECURSIVE lstrip(_)
lstrip(s) == IF s # <<>> /\ IsSpace(Head(s)) THEN lstrip(Tail(s)) ELSE s

RECURSIVE rstrip(_)
rstrip(s) ==
    IF s # <<>> /\ IsSpace(s[Len(s)]) THEN rstrip(SubSeq(s, 1, Len(s) - 1)) ELSE s

\* str.strip()
strip(s) == rstrip(lstrip(s))

\* SQLite's LIKE without an ESCAPE clause: "%" matches any run of characters,
\* "_" matches any one character, every other character matches itself with
\* ASCII letters compared case-insensitively.
RECURSIVE LIKE(_, _)
LIKE(s, pattern) ==
    IF pattern = <<>> THEN s = <<>>
    ELSE IF Head(pattern) = "%"
        THEN LIKE(s, Tail(pattern)) \/ (s # <<>> /\ LIKE(Tail(s), pattern))
    ELSE /\ s # <<>>
         /\ \/ Head(pattern) = "_"
            \/ ToLowerChar(Head(pattern)) = ToLowerChar(Head(s))
         /\ LIKE(Tail(s), Tail(pattern))

\* ------------------------------------------------------------- text values

S_All == <<"A","l","l">>
S_Resolved == <<"R","e","s","o","l","v","e","d">>
S_Closed == <<"C","l","o","s","e","d">>
S_Cancelled == <<"C","a","n","c","e","l","l","e","d">>
S_Assigned == <<"A","s","s","i","g","n","e","d">>
S_WorkInProgress == <<"W","o","r","k"," ","i","n"," ","P","r","o","g","r","e","s","s">>
S_Pending == <<"P","e","n","d","i","n","g">>
S_PendingX == <<"P","e","n","d","i","n","g"," ","X">>
S_pending == <<"p","e","n","d","i","n","g">>

\* ------------------------------------------------------------ database.py

\* build_where: the WHERE conjuncts in order, and the bound parameters
build_where(srch, stat) ==
    LET s == strip(srch)
        like == <<"%">> \o s \o <<"%">>
        w1 == IF s # <<>> THEN <<"text">> ELSE <<>>
        p1 == IF s # <<>> THEN <<like, like>> ELSE <<>>
        w2 == IF stat # <<>> /\ stat # S_All THEN <<"state">> ELSE <<>>
        p2 == IF stat # <<>> /\ stat # S_All THEN <<<<"%">> \o stat \o <<"%">>>> ELSE <<>>
    IN  [where |-> w1 \o w2, params |-> p1 \o p2]

\* One conjunct of the clause on one row, its "?" bound to params from position k:
\*   "text"  is (ShortDescription LIKE ? OR Number LIKE ?)
\*   "state" is State LIKE ?
EvalCond(cond, params, k, row) ==
    IF cond = "text"
    THEN LIKE(row.ShortDescription, params[k]) \/ LIKE(row.Number, params[k + 1])
    ELSE LIKE(row.State, params[k])

Arity(cond) == IF cond = "text" THEN 2 ELSE 1

\* "WHERE " + " AND ".join(where), or no clause when where is empty
RECURSIVE EvalWhere(_, _, _, _)
EvalWhere(where, params, k, row) ==
    IF where = <<>> THEN TRUE
    ELSE /\ EvalCond(Head(where), params, k, row)
         /\ EvalWhere(Tail(where), params, k + Arity(Head(where)), row)

\* The fixed status-group conditions appended by count_with_condition
GroupCondition(group, row) ==
    CASE group = "resolved" -> row.State \in {S_Resolved, S_Closed, S_Cancelled}
      [] group = "inProgress" -> row.State \in {S_Assigned, S_WorkInProgress}
      [] group = "pending" -> LIKE(row.State, S_Pending \o <<"%">>)

\* the rows of st, in storage order, that satisfy the clause and, when one is
\* given, the status-group condition extra
RECURSIVE SelectWhere(_, _, _)
SelectWhere(st, clause, extra) ==
    IF st = <<>> THEN <<>>
    ELSE LET keep == /\ EvalWhere(clause.where, clause.params, 1, Head(st))
                     /\ (extra # "" => GroupCondition(extra, Head(st)))
         IN  (IF keep THEN <<Head(st)>> ELSE <<>>) \o SelectWhere(Tail(st), clause, extra)

\* the count statement with the clause left out
CountAll(st, clause) == Len(st)

\* SELECT COUNT(*) FROM tickets {clause}
CountWhere(st, clause) == Len(SelectWhere(st, clause, ""))

\* ORDER BY Created DESC: rows with equal Created keep the order in which the
\* scan produced them (the sorter's key ends in the scan sequence number)
RECURSIVE InsertDesc(_, _)
InsertDesc(sorted, row) ==
    IF sorted = <<>> THEN <<row>>
    ELSE IF Head(sorted).Created >= row.Created
        THEN <<Head(sorted)>> \o InsertDesc(Tail(sorted), row)
    ELSE <<row>> \o sorted

RECURSIVE OrderByCreatedDesc(_)
OrderByCreatedDesc(rows) ==
    IF rows = <<>> THEN <<>>
    ELSE InsertDesc(OrderByCreatedDesc(SubSeq(rows, 1, Len(rows) - 1)), rows[Len(rows)])

\* LIMIT ? OFFSET ?: a negative offset is 0, a negative limit is no limit
LimitOffset(rows, limit, offset) ==
    LET off == Max(0, offset)
        last == IF limit < 0 THEN Len(rows) ELSE Min(Len(rows), off + limit)
    IN  SubSeq(rows, off + 1, last)

\* the classifier testing "sysmon" before the access point keywords
get_ticket_type_sysmon_first(d) ==
    LET desc == lower(d)
    IN  IF Contains(desc, <<"s","y","s","m","o","n">>) THEN "Sysmon"
        ELSE IF \/ Contains(desc, <<"-","a","p">>)
                \/ Contains(desc, <<" ","a","p"," ","d","o","w","n">>)
                \/ Contains(desc, <<"d","o","w","n"," ","a","p">>)
            THEN "Access Point"
        ELSE IF Contains(desc, <<"o","n","t">>) \/ Contains(desc, <<"n","a","b","a">>)
            THEN "ONT"
        ELSE ""

\* get_ticket_type
get_ticket_type(d) ==
    LET desc == lower(d)
    IN  IF \/ Contains(desc, <<"-","a","p">>)
           \/ Contains(desc, <<" ","a","p"," ","d","o","w","n">>)
           \/ Contains(desc, <<"d","o","w","n"," ","a","p">>)
        THEN "Access Point"
        ELSE IF Contains(desc, <<"s","y","s","m","o","n">>) THEN "Sysmon"
        ELSE IF Contains(desc, <<"o","n","t">>) \/ Contains(desc, <<"n","a","b","a">>)
            THEN "ONT"
        ELSE ""

\* the dict built from one sqlite3.Row
ToTicket(r) ==
    [id |-> r.Number, assignee |-> r.Caller, shortDescription |-> r.ShortDescription,
     status |-> r.State, createdAt |-> r.Created,
     type |-> get_ticket_type(r.ShortDescription)]

ToTickets(rows) == [i \in 1..Len(rows) |-> ToTicket(rows[i])]

\* the offset with the page taken as the number of pages to skip
OffsetFromPage(page, page_size) == Max(1, page) * page_size

\* the offset with pages counted from 0
OffsetZeroBased(page, page_size) == Max(0, page) * page_size

\* page = max(1, page); offset = (page - 1) * page_size
Offset(page, page_size) == (Max(1, page) - 1) * page_size

\* the page statement without its ORDER BY
SelectPageUnordered(st, clause, page_size, offset) ==
    ToTickets(LimitOffset(SelectWhere(st, clause, ""), page_size, offset))

\* the page statement of search_tickets
SelectPage(st, clause, page_size, offset) ==
    ToTickets(LimitOffset(OrderByCreatedDesc(SelectWhere(st, clause, "")), page_size, offset))

\* count_with_condition with the clause dropped
count_condition_only(st, clause, group) ==
    Len(SelectWhere(st, [where |-> <<>>, params |-> <<>>], group))

\* count_with_condition: the clause AND the condition, or WHERE the condition
count_with_condition(st, clause, group) == Len(SelectWhere(st, clause, group))

\* search_tickets, every statement reading the same table content st
search_tickets(st, srch, stat, page, page_size) ==
    LET clause == build_where(srch, stat)
        total == CountWhere(st, clause)
    IN  [tickets |-> SelectPage(st, clause, page_size, Offset(page, page_size)),
         total |-> total,
         stats |-> [total |-> total,
                    resolved |-> count_with_condition(st, clause, "resolved"),
                    inProgress |-> count_with_condition(st, clause, "inProgress"),
                    pending |-> count_with_condition(st, clause, "pending")]]

\* export_tickets
export_tickets(st, srch, stat) ==
    ToTickets(OrderByCreatedDesc(SelectWhere(st, build_where(srch, stat), "")))

\* ------------------------------------------------------------------ inputs

Row(n, c, d, s, t) ==
    [Number |-> n, Caller |-> c, ShortDescription |-> d, State |-> s, Created |-> t]

\* The rows a table is drawn from, in rowid order.  Identifiers are unique;
\* Created has ties (1 and 2, 3 and 5, 4 and 6).
Pool ==
    << Row(<<"t","1">>, <<"k">>, <<"x","-","A","P">>, S_Resolved, 2),
       Row(<<"t","2">>, <<"m">>, <<"O","N","T","_","b">>, S_PendingX, 2),
       Row(<<"t","3">>, <<"k">>, <<"a","%","b">>, S_pending, 1),
       Row(<<"t","4">>, <<"m">>, <<"S","y","s","m","o","n">>, S_Assigned, 3),
       Row(<<"t","5">>, <<"k">>, <<"a","b">>, S_Cancelled, 1),
       Row(<<"t","6">>, <<"m">>, <<"d","o","w","n"," ","a","p">>, S_WorkInProgress, 3) >>

RECURSIVE Pick(_, _)
Pick(ids, i) ==
    IF i > Len(Pool) THEN <<>>
    ELSE (IF i \in ids THEN <<Pool[i]>> ELSE <<>>) \o Pick(ids, i + 1)

\* every table of at most MaxTickets rows of the pool
Stores == {Pick(ids, 1) : ids \in {x \in SUBSET (1..Len(Pool)) : Cardinality(x) <= MaxTickets}}

SearchTexts == {<<>>, <<" ">>, <<" ","B"," ">>, <<"_">>, <<"%">>, <<"1">>}

StatusTexts == {<<>>, S_All, S_Pending, S_Resolved}

Pages == (0 - MaxNegPage)..MaxPage

PageSizes == 1..MaxPageSize

\* ------------------------------------------------- the query layer, called

qvars == <<store, search, status, sres, prev, eres>>

scanvars == <<nextPage, acc>>

cvars == <<descr, dtype>>

wvars == <<pc, part, seen, writes>>

uvars == <<search_input, status_combo, ui, workers, queue, app>>

vars == <<qvars, scanvars, cvars, wvars, uvars>>

NoWindow ==
    /\ search_input = <<>>
    /\ status_combo = <<>>
    /\ ui = None
    /\ workers = <<>>
    /\ queue = <<>>
    /\ app = "none"

NoClassify ==
    /\ descr = <<>>
    /\ dtype = None

NoWriter ==
    /\ pc = "idle"
    /\ part = None
    /\ seen = {}
    /\ writes = 0

NoScan ==
    /\ nextPage = 1
    /\ acc = <<>>

InitQuery ==
    /\ store \in Stores
    /\ search \in SearchTexts
    /\ status \in StatusTexts
    /\ sres = None
    /\ prev = None
    /\ eres = None

Init ==
    /\ InitQuery
    /\ NoScan
    /\ NoClassify
    /\ NoWriter
    /\ NoWindow

\* a call of search_tickets(search, status, page, page_size); a second call
\* repeats a call whose page was below 1 with page 1
SearchTickets(page, page_size) ==
    /\ \/ sres = None
       \/ /\ sres # None
          /\ sres.page < 1
          /\ page = 1
          /\ page_size = sres.page_size
    /\ sres' = [page |-> page, page_size |-> page_size,
                result |-> search_tickets(store, search, status, page, page_size)]
    /\ prev' = sres
    /\ UNCHANGED <<store, search, status, eres, scanvars, cvars, wvars, uvars>>

\* a call of export_tickets(search, status)
ExportTickets ==
    /\ eres = None
    /\ eres' = [tickets |-> export_tickets(store, search, status)]
    /\ UNCHANGED <<store, search, status, sres, prev, scanvars, cvars, wvars, uvars>>

Next ==
    \/ \E page \in Pages, page_size \in PageSizes : SearchTickets(page, page_size)
    \/ ExportTickets

Spec == Init /\ [][Next]_vars

\* ------------------------------------------- paging through a whole result

CeilDiv(a, b) == (a + b - 1) \div b

\* the caller fetches page nextPage and appends it to what it has; it goes on
\* while the total it was told leaves a page to fetch
FetchPage(page_size) ==
    /\ \/ nextPage = 1
       \/ /\ nextPage > 1
          /\ page_size = sres.page_size
          /\ nextPage <= CeilDiv(sres.result.total, page_size)
    /\ sres' = [page |-> nextPage, page_size |-> page_size,
                result |-> search_tickets(store, search, status, nextPage, page_size)]
    /\ acc' = acc \o sres'.result.tickets
    /\ nextPage' = nextPage + 1
    /\ prev' = sres
    /\ UNCHANGED <<store, search, status, eres, cvars, wvars, uvars>>

ScanDone ==
    /\ nextPage > 1
    /\ nextPage > CeilDiv(sres.result.total, sres.page_size)

NextScan ==
    \/ \E page_size \in PageSizes : FetchPage(page_size)
    \/ ExportTickets

SpecScan == Init /\ [][NextScan]_vars

\* ------------------------------------------------------- the classifier

Words ==
    { <<" ","A","P">>, <<" ","D","o","w","n">>, <<"d","o","w","n">>, <<" ","a","p">>,
      <<"-","A","p">>, <<"S","Y","S">>, <<"m","o","n">>, <<"s","y","s","m","o","n">>,
      <<"O","N","T">>, <<"N","a","b","a">>, <<"x">> }

RECURSIVE Flatten(_)
Flatten(ws) == IF ws = <<>> THEN <<>> ELSE Head(ws) \o Flatten(Tail(ws))

\* every text of at most MaxWords words
Descriptions == UNION {{Flatten(ws) : ws \in [1..n -> Words]} : n \in 0..MaxWords}

InitClassify ==
    /\ descr \in Descriptions
    /\ dtype = None
    /\ store = <<>>
    /\ search = <<>>
    /\ status = <<>>
    /\ sres = None
    /\ prev = None
    /\ eres = None
    /\ NoScan
    /\ NoWriter
    /\ NoWindow

\* a call of get_ticket_type(descr)
Classify ==
    /\ dtype = None
    /\ dtype' = [type |-> get_ticket_type(descr)]
    /\ UNCHANGED <<qvars, scanvars, descr, wvars, uvars>>

NextClassify == Classify

SpecClassify == InitClassify /\ [][NextClassify]_vars

\* ------------------------------ search_tickets beside a writing connection

\* Each cur.execute is a statement of its own: the sqlite3 module opens no
\* transaction for a SELECT, so another connection may commit between two of
\* them.
WriterStatuses == {S_Resolved, S_Pending}

ConcStores == {st \in Stores : Len(st) <= 1}

ConcSearchTexts == {<<>>}

ConcStatusTexts == {S_All, S_Pending}

ConcPages == 1..2

InitWriter ==
    /\ store \in ConcStores
    /\ search \in ConcSearchTexts
    /\ status \in ConcStatusTexts
    /\ sres = None
    /\ prev = None
    /\ eres = None
    /\ NoScan
    /\ NoClassify
    /\ NoWriter
    /\ NoWindow

Running == pc \notin {"idle", "done"}

\* search_tickets is entered: page and offset are computed, the clause is built
BeginSearch(page, page_size) ==
    /\ pc = "idle"
    /\ pc' = "count"
    /\ part' = [page |-> page, page_size |-> page_size,
                clause |-> build_where(search, status),
                total |-> 0, tickets |-> <<>>, resolved |-> 0, inProgress |-> 0]
    /\ seen' = {store}
    /\ UNCHANGED <<qvars, scanvars, cvars, writes, uvars>>

\* total = cur.execute("SELECT COUNT(*) ...").fetchone()[0]
StmtCount ==
    /\ pc = "count"
    /\ pc' = "page"
    /\ part' = [part EXCEPT !.total = CountWhere(store, part.clause)]
    /\ UNCHANGED <<qvars, scanvars, cvars, seen, writes, uvars>>

\* rows = cur.execute(sql, params + [page_size, offset]).fetchall()
StmtPage ==
    /\ pc = "page"
    /\ pc' = "resolved"
    /\ part' = [part EXCEPT !.tickets =
                    SelectPage(store, part.clause, part.page_size,
                               Offset(part.page, part.page_size))]
    /\ UNCHANGED <<qvars, scanvars, cvars, seen, writes, uvars>>

\* stats["resolved"] = count_with_condition(...)
StmtResolved ==
    /\ pc = "resolved"
    /\ pc' = "inProgress"
    /\ part' = [part EXCEPT !.resolved = count_with_condition(store, part.clause, "resolved")]
    /\ UNCHANGED <<qvars, scanvars, cvars, seen, writes, uvars>>

\* stats["inProgress"] = count_with_condition(...)
StmtInProgress ==
    /\ pc = "inProgress"
    /\ pc' = "pending"
    /\ part' = [part EXCEPT !.inProgress =
                    count_with_condition(store, part.clause, "inProgress")]
    /\ UNCHANGED <<qvars, scanvars, cvars, seen, writes, uvars>>

\* stats["pending"] = count_with_condition(...); return
StmtPending ==
    /\ pc = "pending"
    /\ pc' = "done"
    /\ sres' = [page |-> part.page, page_size |-> part.page_size,
                result |-> [tickets |-> part.tickets, total |-> part.total,
                            stats |-> [total |-> part.total,
                                       resolved |-> part.resolved,
                                       inProgress |-> part.inProgress,
                                       pending |->
                                           count_with_condition(store, part.clause, "pending")]]]
    /\ prev' = sres
    /\ UNCHANGED <<store, search, status, eres, scanvars, cvars, part, seen, writes, uvars>>

Committed(st) ==
    /\ writes < MaxWrites
    /\ writes' = writes + 1
    /\ store' = st
    /\ seen' = IF Running THEN seen \cup {st} ELSE seen
    /\ UNCHANGED <<search, status, sres, prev, eres, scanvars, cvars, pc, part, uvars>>

\* another connection inserts a ticket with a new identifier
WriterInsert(i) ==
    /\ \A k \in 1..Len(store) : store[k].Number # Pool[i].Number
    /\ Committed(Append(store, Pool[i]))

\* another connection deletes a ticket
WriterDelete(k) ==
    Committed(SubSeq(store, 1, k - 1) \o SubSeq(store, k + 1, Len(store)))

\* another connection changes the status of a ticket
WriterSetState(k, s) ==
    /\ store[k].State # s
    /\ Committed([store EXCEPT ![k].State = s])

NextWriter ==
    \/ \E page \in ConcPages, page_size \in PageSizes : BeginSearch(page, page_size)
    \/ StmtCount
    \/ StmtPage
    \/ StmtResolved
    \/ StmtInProgress
    \/ StmtPending
    \/ \E i \in 1..Len(Pool) : WriterInsert(i)
    \/ \E k \in 1..Len(store) : WriterDelete(k)
    \/ \E k \in 1..Len(store), s \in WriterStatuses : WriterSetState(k, s)

SpecWriter == InitWriter /\ [][NextWriter]_vars

\* ------------------------------------------------------------- main.py

DefaultPageSize == 50

\* the table the window reads, and what the user may type or select
WindowStores == {st \in Stores : Len(st) = MaxTickets /\ st[1] = Pool[1]}

SearchInputs == {<<>>, <<"1">>}

ComboItems == {S_All, S_Pending}

\* MainWindow.__init__: the fields, the widgets of init_ui, then refresh()
InitWindow ==
    /\ store \in WindowStores
    /\ search = <<>>
    /\ status = <<>>
    /\ sres = None
    /\ prev = None
    /\ eres = None
    /\ NoScan
    /\ NoClassify
    /\ NoWriter
    /\ search_input = <<>>
    /\ status_combo = S_All
    /\ ui = [current_page |-> 1, total_pages |-> 1,
             last_search |-> <<>>, last_status |-> S_All,
             progress |-> "shown",
             page_label |-> None, prev_btn |-> TRUE, next_btn |-> TRUE,
             stats_labels |-> None, table |-> <<>>, status_bar |-> None]
    /\ workers = << [search |-> <<>>, status |-> S_All, page |-> 1, state |-> "running"] >>
    /\ queue = <<>>
    /\ app = "running"

\* refresh, with the page left in current_page by its caller and the selector
\* text the combo box holds when it runs
refresh(page, combo) ==
    /\ app = "running"
    /\ Len(workers) < MaxRequests
    /\ ui' = [ui EXCEPT !.current_page = page,
                        !.last_search = search_input,
                        !.last_status = combo,
                        !.progress = "shown"]
    /\ workers' = Append(workers,
                         [search |-> search_input, status |-> combo, page |-> page,
                          state |-> "running"])
    /\ UNCHANGED <<qvars, scanvars, cvars, wvars, search_input, queue, app>>

\* the user edits the search field; no handler is connected to the edit
TypeSearch(text) ==
    /\ app = "running"
    /\ text # search_input
    /\ search_input' = text
    /\ UNCHANGED <<qvars, scanvars, cvars, wvars, status_combo, ui, workers, queue, app>>

\* on_search: return pressed in the search field, or the Refresh button
on_search ==
    /\ refresh(1, status_combo)
    /\ UNCHANGED status_combo

\* the user selects another status: currentTextChanged runs on_search
SelectStatus(item) ==
    /\ item # status_combo
    /\ status_combo' = item
    /\ refresh(1, item)

\* go_page
go_page(page) ==
    /\ refresh(Max(1, page), status_combo)
    /\ UNCHANGED status_combo

\* the Prev and Next buttons
PrevClicked ==
    /\ ui.prev_btn
    /\ go_page(ui.current_page - 1)

NextClicked ==
    /\ ui.next_btn
    /\ go_page(ui.current_page + 1)

\* SearchWorker.run: search_tickets returns and finished is emitted; the slot
\* lives in the window's thread, so the call is queued to its event loop
SearchWorker_run(w) ==
    /\ app = "running"
    /\ workers[w].state = "running"
    /\ workers' = [workers EXCEPT ![w].state = "emitted"]
    /\ queue' = Append(queue,
                       [worker |-> w,
                        data |-> search_tickets(store, workers[w].search, workers[w].status,
                                                workers[w].page, DefaultPageSize)])
    /\ UNCHANGED <<qvars, scanvars, cvars, wvars, search_input, status_combo, ui, app>>

\* SearchWorker.run: search_tickets raises (the store cannot be opened, a
\* statement fails); run has no handler, the thread ends, nothing is emitted
SearchWorker_run_raises(w) ==
    /\ app = "running"
    /\ workers[w].state = "running"
    /\ workers' = [workers EXCEPT ![w].state = "raised"]
    /\ UNCHANGED <<qvars, scanvars, cvars, wvars, search_input, status_combo, ui, queue, app>>

\* on_data_loaded, run by the event loop for the oldest queued signal
on_data_loaded ==
    /\ app = "running"
    /\ queue # <<>>
    /\ LET data == Head(queue).data
           total_pages == Max(1, (data.total + 49) \div 50)
       IN  ui' = [ui EXCEPT
                    !.progress = "hidden",
                    !.total_pages = total_pages,
                    !.page_label = [page |-> ui.current_page, of |-> total_pages],
                    !.prev_btn = ui.current_page > 1,
                    !.next_btn = ui.current_page < total_pages,
                    !.stats_labels = [total |-> data.stats.total,
                                      resolved |-> data.stats.resolved,
                                      inProgress |-> data.stats.inProgress,
                                      pending |-> data.stats.pending,
                                      cancelled |-> 0],
                    !.table = data.tickets,
                    !.status_bar = [showing |-> Len(data.tickets), of |-> data.total]]
    /\ workers' = [workers EXCEPT ![Head(queue).worker].state = "delivered"]
    /\ queue' = Tail(queue)
    /\ UNCHANGED <<qvars, scanvars, cvars, wvars, search_input, status_combo, app>>

\* refresh rebinds self.worker while the thread it held still runs: the last
\* reference to a running QThread is dropped, and destroying a running
\* QThread ends the process
DestroyedWhileRunning ==
    /\ app = "running"
    /\ \E w \in 1..(Len(workers) - 1) : workers[w].state = "running"
    /\ app' = "aborted"
    /\ UNCHANGED <<qvars, scanvars, cvars, wvars, search_input, status_combo, ui, workers, queue>>

NextWindow ==
    \/ \E text \in SearchInputs : TypeSearch(text)
    \/ on_search
    \/ \E item \in ComboItems : SelectStatus(item)
    \/ PrevClicked
    \/ NextClicked
    \/ \E w \in 1..Len(workers) : SearchWorker_run(w)
    \/ \E w \in 1..Len(workers) : SearchWorker_run_raises(w)
    \/ on_data_loaded
    \/ DestroyedWhileRunning

SpecWindow == InitWindow /\ [][NextWindow]_vars

\* ----------------------------------------------------------- properties

\* hay contains needle, every character of needle standing for itself, ASCII
\* letters compared without case
ContainsNoCase(hay, needle) ==
    \E i \in 0..(Len(hay) - Len(needle)) :
        \A j \in 1..Len(needle) : ToLowerChar(hay[i + j]) = ToLowerChar(needle[j])

HasPrefix(s, p) == Len(s) >= Len(p) /\ SubSeq(s, 1, Len(p)) = p

HasPrefixNoCase(s, p) == Len(s) >= Len(p) /\ lower(SubSeq(s, 1, Len(p))) = lower(p)

\* the rows of the table that satisfy the filter built from search and status
Matching(st) ==
    LET clause == build_where(search, status)
    IN  {k \in 1..Len(st) : EvalWhere(clause.where, clause.params, 1, st[k])}

Ids(tickets) == {tickets[i].id : i \in 1..Len(tickets)}

\* C1: with the table unchanged, the total of search_tickets(search, status,
\* page, page_size) is the number of tickets export_tickets(search, status)
\* returns, whatever the page and the page size.
C1_TotalEqualsExport ==
    (sres # None /\ eres # None) => sres.result.total = Len(eres.tickets)

C1_Witness ==
    /\ sres # None
    /\ eres # None
    /\ Len(store) = 3
    /\ sres.result.total = 2
    /\ Len(sres.result.tickets) = 1

\* C2: with the table unchanged, the pages 1..ceil(total/page_size) of
\* search_tickets, concatenated in page order, are the sequence export_tickets
\* returns for the same filter, and no identifier occurs twice in them.
C2_PagesConcatenateToExport ==
    (ScanDone /\ eres # None) =>
        /\ acc = eres.tickets
        /\ Cardinality(Ids(acc)) = Len(acc)

\* three pages of one ticket each, two of the tickets created at the same time
C2_Witness ==
    /\ ScanDone
    /\ eres # None
    /\ nextPage = 4
    /\ Len(acc) = 3
    /\ \E i \in 1..2 : acc[i].createdAt = acc[i + 1].createdAt

\* C3: for page >= 1, search_tickets returns at most page_size tickets:
\* page_size of them on every page before the last page ceil(total/page_size),
\* total - (last - 1) * page_size on the last page, none beyond it.
C3_PageLength ==
    (sres # None /\ sres.page >= 1) =>
        LET n == Len(sres.result.tickets)
            total == sres.result.total
            size == sres.page_size
            last == CeilDiv(total, size)
        IN  /\ n <= size
            /\ sres.page < last => n = size
            /\ sres.page = last => n = total - (last - 1) * size
            /\ sres.page > last => n = 0

\* a last page that is not full
C3_Witness ==
    /\ sres # None
    /\ sres.page = 2
    /\ sres.page_size = 2
    /\ sres.result.total = 3
    /\ Len(sres.result.tickets) = 1

\* what C4 says a ticket must satisfy to be counted and returned
ClaimedMatch(row) ==
    /\ \/ strip(search) = <<>>
       \/ ContainsNoCase(row.Number, strip(search))
       \/ ContainsNoCase(row.ShortDescription, strip(search))
    /\ \/ status = <<>>
       \/ status = S_All
       \/ ContainsNoCase(row.State, status)

\* C4: a ticket is returned by export_tickets, and counted in total, exactly
\* when its identifier or description contains the trimmed search text as
\* literal text (or that text is empty) and its status contains the selector
\* (or the selector is empty or "All").
C4_LiteralFilter ==
    /\ eres # None =>
        \A k \in 1..Len(store) :
            (store[k].Number \in Ids(eres.tickets)) <=> ClaimedMatch(store[k])
    /\ sres # None =>
        sres.result.total = Cardinality({k \in 1..Len(store) : ClaimedMatch(store[k])})

\* C5 as amended: stats.resolved, stats.inProgress and stats.pending are the
\* numbers of tickets of the whole table that satisfy the filter and have a
\* status in {Resolved, Closed, Cancelled}, in {Assigned, Work in Progress},
\* or beginning with "Pending" compared without ASCII case; they do not
\* depend on the page, and stats.total is total.
C5_StatsOverFilteredSet ==
    sres # None =>
        LET stats == sres.result.stats
            m == Matching(store)
        IN  /\ stats.total = sres.result.total
            /\ stats.resolved = Cardinality({k \in m :
                    store[k].State \in {S_Resolved, S_Closed, S_Cancelled}})
            /\ stats.inProgress = Cardinality({k \in m :
                    store[k].State \in {S_Assigned, S_WorkInProgress}})
            /\ stats.pending = Cardinality({k \in m :
                    HasPrefixNoCase(store[k].State, S_Pending)})

\* two pending tickets counted, one of them with a lower-case status, behind a
\* page that shows one ticket
C5_Witness ==
    /\ sres # None
    /\ sres.result.stats.pending = 2
    /\ sres.result.stats.resolved = 1
    /\ Len(sres.result.tickets) = 1

\* C5 as stated: stats.pending counts the matching tickets whose status
\* begins with "Pending".
C5_PendingBeginsWithPending ==
    sres # None =>
        sres.result.stats.pending =
            Cardinality({k \in Matching(store) : HasPrefix(store[k].State, S_Pending)})

\* C6: a call of search_tickets with a page below 1 returns what the call with
\* page 1, the same filter and page size, returns on the same table.
C6_PageBelowOneIsPageOne ==
    (/\ prev # None
     /\ sres # None
     /\ prev.page < 1
     /\ sres.page = 1
     /\ sres.page_size = prev.page_size) => sres.result = prev.result

C6_Witness ==
    /\ prev # None
    /\ sres # None
    /\ prev.page < 0
    /\ sres.page = 1
    /\ sres.page_size = 1
    /\ sres.result.total = 2
    /\ Len(prev.result.tickets) = 1

\* what C7 says the classifier returns
ExpectedType(d) ==
    IF \/ ContainsNoCase(d, <<"-","a","p">>)
       \/ ContainsNoCase(d, <<" ","a","p"," ","d","o","w","n">>)
       \/ ContainsNoCase(d, <<"d","o","w","n"," ","a","p">>)
    THEN "Access Point"
    ELSE IF ContainsNoCase(d, <<"s","y","s","m","o","n">>) THEN "Sysmon"
    ELSE IF ContainsNoCase(d, <<"o","n","t">>) \/ ContainsNoCase(d, <<"n","a","b","a">>)
        THEN "ONT"
    ELSE ""

\* C7: get_ticket_type returns one of "Access Point", "Sysmon", "ONT", "",
\* chosen without regard to case by the first match among: "-ap", " ap down"
\* or "down ap"; "sysmon"; "ont" or "naba"; nothing.
C7_ClassifierPrecedence ==
    dtype # None =>
        /\ dtype.type \in {"Access Point", "Sysmon", "ONT", ""}
        /\ dtype.type = ExpectedType(descr)

\* a description with an access point keyword and "sysmon", in capitals
C7_Witness ==
    /\ dtype # None
    /\ dtype.type = "Access Point"
    /\ ContainsNoCase(descr, <<"s","y","s","m","o","n">>)
    /\ ~Contains(descr, <<"-","a","p">>)

\* no worker runs and no signal waits for the event loop
Quiescent ==
    /\ app = "running"
    /\ queue = <<>>
    /\ \A w \in 1..Len(workers) : workers[w].state \in {"delivered", "raised"}

\* C8: a SearchWorker whose query fails still emits its completion to the
\* window, and once every worker has completed the loading indicator is
\* cleared.
C8_FailureReachesWindow ==
    /\ \A w \in 1..Len(workers) : workers[w].state # "raised"
    /\ Quiescent => ui.progress = "hidden"

\* C9: the total, the page and the stats a search_tickets call returns are
\* those of one table content among the contents the table had during the
\* call.
C9_SingleSnapshot ==
    pc = "done" =>
        \E st \in seen :
            sres.result = search_tickets(st, search, status, sres.page, sres.page_size)

\* C10: once every started worker has delivered its result, the table, the
\* total, the stats and the page label are those of the request issued last.
C10_LatestRequestWins ==
    (Quiescent /\ \A w \in 1..Len(workers) : workers[w].state = "delivered") =>
        LET latest == workers[Len(workers)]
            data == search_tickets(store, latest.search, latest.status, latest.page,
                                   DefaultPageSize)
        IN  /\ ui.table = data.tickets
            /\ ui.status_bar.of = data.total
            /\ ui.stats_labels.total = data.stats.total
            /\ ui.stats_labels.pending = data.stats.pending
            /\ ui.page_label.page = latest.page

====
